---- MODULE Spec2Model ----
(***************************************************************************)
(* A model of dictionary_client.DictionaryClient: the reply assembler      *)
(* (_recv_all), the handshake run by the constructor, the request/reply    *)
(* round trip (_get_response) and disconnect, against a server that may    *)
(* answer anything, late or never, over a network that may cut a reply     *)
(* into chunks at any byte.                                                 *)
(*                                                                         *)
(* Bytes are sequences of one-character strings. The response classes and  *)
(* the command builders live outside dictionary_client.py: of a response   *)
(* only its status_code and, for a listing, its content are kept, of a     *)
(* command only that it was written.                                       *)
(*                                                                         *)
(* Spec is the session from its constructor on; SpecLive the constructor   *)
(* under fair scheduling of _recv_all; SpecTimed the constructor with the  *)
(* time of its waits; SpecProps the cached listings and the operations     *)
(* that validate against them; SpecTwo two issuers on one session.         *)
(***************************************************************************)
EXTENDS Integers, Sequences, FiniteSets, TLC

\* ------------------------------------------------------------------ bounds

\* The number of public operations called on one constructed session.
MaxCalls == 2

\* The number of waits that find data (so the number of chunks) one
\* _recv_all call is followed through.
MaxWaits == 3

\* ------------------------------------------------------- program constants

BUF_SIZE == 4096

\* status_codes.DictStatusCode members used by the client.
CONNECTION_ACCEPTED == 220
OK == 250
CLOSING_CONNECTION == 221

\* ------------------------------------------------------------------- bytes

CRLF == <<"\r", "\n">>

Digits == {"0", "1", "2", "3", "4", "5", "6", "7", "8", "9"}

Whitespace == {" ", "\t", "\n", "\r"}

DigitVal(c) ==
    CASE c = "0" -> 0 [] c = "1" -> 1 [] c = "2" -> 2 [] c = "3" -> 3
      [] c = "4" -> 4 [] c = "5" -> 5 [] c = "6" -> 6 [] c = "7" -> 7
      [] c = "8" -> 8 [] c = "9" -> 9

Min(a, b) == IF a < b THEN a ELSE b

\* b[:n]
Take(b, n) == SubSeq(b, 1, Min(n, Len(b)))

\* b[n:]
Drop(b, n) == SubSeq(b, Min(n, Len(b)) + 1, Len(b))

\* b.startswith(p)
StartsWith(b, p) == Len(b) >= Len(p) /\ SubSeq(b, 1, Len(p)) = p

\* b[-2:] == p, for a two-byte p (a shorter b compares unequal)
EndsWith(b, p) == Len(b) >= Len(p) /\ SubSeq(b, Len(b) - Len(p) + 1, Len(b)) = p

\* p in b
Contains(b, p) ==
    \E i \in 1..(Len(b) - Len(p) + 1) : SubSeq(b, i, i + Len(p) - 1) = p

RECURSIVE LStrip(_)
LStrip(b) == IF b # <<>> /\ Head(b) \in Whitespace THEN LStrip(Tail(b)) ELSE b

RECURSIVE RStrip(_)
RStrip(b) ==
    IF b # <<>> /\ b[Len(b)] \in Whitespace
    THEN RStrip(SubSeq(b, 1, Len(b) - 1))
    ELSE b

\* Decimal digits, single underscores allowed between two digits.
ValidDigits(s) ==
    /\ s # <<>>
    /\ s[1] \in Digits
    /\ s[Len(s)] \in Digits
    /\ \A i \in 1..Len(s) : s[i] \in Digits \cup {"_"}
    /\ \A i \in 1..(Len(s) - 1) : ~(s[i] = "_" /\ s[i + 1] = "_")

RECURSIVE DecimalValue(_, _)
DecimalValue(s, sofar) ==
    IF s = <<>> THEN sofar
    ELSE IF Head(s) = "_" THEN DecimalValue(Tail(s), sofar)
    ELSE DecimalValue(Tail(s), 10 * sofar + DigitVal(Head(s)))

\* Python's int(bytes): surrounding whitespace is stripped, one sign is
\* accepted, then decimal digits; anything else raises ValueError (ok = FALSE).
int(b) ==
    LET s == RStrip(LStrip(b))
        signed == s # <<>> /\ s[1] \in {"+", "-"}
        body == IF signed THEN Tail(s) ELSE s
    IN  IF ValidDigits(body)
        THEN [ok |-> TRUE,
              val |-> IF signed /\ s[1] = "-"
                      THEN 0 - DecimalValue(body, 0)
                      ELSE DecimalValue(body, 0)]
        ELSE [ok |-> FALSE, val |-> 0]

\* DictionaryClient._get_status
_get_status(response_bytes) == int(Take(response_bytes, 3))

\* DictionaryClient._response_complete
_response_complete(response_bytes) ==
    /\ \/ StartsWith(response_bytes, <<"2", "5", "0">>)
       \/ Contains(response_bytes, <<"\r", "\n", "2", "5", "0">>)
    /\ EndsWith(response_bytes, CRLF)

\* The Terminal status codes: the status line alone is the whole reply.
TerminalCodes == {210, 220, 221, 250, 420, 421, 500, 501, 502, 503, 550, 551, 552, 554, 555}

\* The Preliminary status codes: more data must follow the status line.
PreliminaryCodes == {110, 111, 112, 113, 114, 130, 150, 151, 152}

\* DictStatusCode.response_complete
response_complete(code) == code \in TerminalCodes

\* ----------------------------------------------------------- the server

\* The replies a server may send, whatever the command was. The client reads
\* only the three leading bytes, the line ends and the digits 250 after a line
\* end, so the status lines carry no text after the code.
R220 == <<"2", "2", "0", "\r", "\n">>
R420 == <<"4", "2", "0", "\r", "\n">>
R250 == <<"2", "5", "0", "\r", "\n">>
R221 == <<"2", "2", "1", "\r", "\n">>
\* A multi-line reply: its body holds a line of the digits 250 and a line of
\* text, and its last line is the terminator line.
R150 == <<"1", "5", "0", "\r", "\n",
          "2", "5", "0", "\r", "\n",
          "t", "\r", "\n",
          "2", "5", "0", "\r", "\n">>

Replies == {R220, R420, R250, R221, R150}

\* ------------------------------------------------------------------ state

VARIABLES
    session,      \* "Constructing", "Ready" (__init__ returned), "Failed" (__init__ raised)
    caller,       \* the method that called _recv_all last
    pc,           \* position in _recv_all; "done" when no call is running
    sock_closed,  \* self.sock.close() has run
    bytes_received, \* _recv_all's accumulator
    status_code,  \* _recv_all's status_code, <<>> before it is parsed
    result,       \* what the last _recv_all returned, <<>> when it has not returned
    error,        \* the exception the last call raised, kind "none" when it has not
    stream,       \* bytes the server has sent that the client has not read
    peer_closed,  \* the server closed the connection
    owed,         \* commands (and the greeting) the server has not answered
    ncalls,       \* public operations called so far
    nselect,      \* select.select calls of the current _recv_all
    nrecv,        \* sock.recv calls of the current _recv_all
    read_log,     \* every byte sock.recv returned to the current _recv_all, in order
    first_prefix, \* the first sock.recv's bytes that line 88 reads: its three leading bytes
    nsent,        \* sock.sendall calls of the session
    failed_once,  \* some call of the session has raised
    greet_code,   \* status code of the greeting as _connect saw it, <<>> before
    ident_code,   \* status code of the identification reply, <<>> before
    waited,       \* time units the current (or last) select.select has been waiting
    elapsed,      \* time units the earlier waits of the current _recv_all took
    op,           \* the public operation running (or run last) and its arguments
    _databases,   \* the cached attribute _databases: <<>> for None, else <<listing>>
    _strategies,  \* the cached attribute _strategies: <<>> for None, else <<listing>>
    cmds,         \* the commands the current public operation has written
    nstored_db,   \* times Databases.__get__ stored a listing (line 65)
    nstored_strat, \* times Strategies.__get__ stored a listing (line 56)
    other         \* the frame of a second issuer that is not running

vars == <<session, caller, pc, sock_closed, bytes_received, status_code, result,
          error, stream, peer_closed, owed, ncalls, nselect, nrecv, read_log,
          first_prefix, nsent, failed_once, greet_code, ident_code, waited,
          elapsed, op, _databases, _strategies, cmds, nstored_db,
          nstored_strat, other>>

locals == <<bytes_received, status_code, nselect, nrecv, read_log, first_prefix>>
checkpoints == <<greet_code, ident_code>>
clock == <<waited, elapsed>>

\* What the untimed steps of one issuer leave alone.
props == <<op, _databases, _strategies, cmds, nstored_db, nstored_strat>>
ext == <<clock, props, other>>

NoError == [kind |-> "none", code |-> <<>>]

\* No public operation has been called.
NoOp == [method |-> "none", db |-> "", strategy |-> ""]

\* The frame of an issuer that has called nothing.
IdleFrame ==
    [caller |-> "none", pc |-> "done", bytes_received |-> <<>>,
     status_code |-> <<>>, nselect |-> 0, nrecv |-> 0, read_log |-> <<>>,
     first_prefix |-> <<>>, result |-> <<>>, error |-> NoError, op |-> NoOp,
     cmds |-> <<>>]

\* __init__ up to the first statement of _recv_all: the socket is created and
\* connected, and the server owes the greeting.
Init ==
    /\ session = "Constructing"
    /\ caller = "_connect"
    /\ pc = "select1"
    /\ sock_closed = FALSE
    /\ bytes_received = <<>>
    /\ status_code = <<>>
    /\ result = <<>>
    /\ error = NoError
    /\ stream = <<>>
    /\ peer_closed = FALSE
    /\ owed = 1
    /\ ncalls = 0
    /\ nselect = 0
    /\ nrecv = 0
    /\ read_log = <<>>
    /\ first_prefix = <<>>
    /\ nsent = 0
    /\ failed_once = FALSE
    /\ greet_code = <<>>
    /\ ident_code = <<>>
    /\ waited = 0
    /\ elapsed = 0
    /\ op = NoOp
    /\ _databases = <<>>
    /\ _strategies = <<>>
    /\ cmds = <<>>
    /\ nstored_db = 0
    /\ nstored_strat = 0
    /\ other = IdleFrame

\* ------------------------------------------------- the server, the network

\* The server answers one outstanding command (or sends the greeting).
ServerReply ==
    /\ owed > 0
    /\ ~peer_closed
    /\ \E r \in Replies : stream' = stream \o r
    /\ owed' = owed - 1
    /\ UNCHANGED <<session, caller, pc, sock_closed, result, error, peer_closed,
                   ncalls, nsent, failed_once>>
    /\ UNCHANGED <<locals, checkpoints>>

\* The server closes its end of the connection.
ServerClose ==
    /\ ~peer_closed
    /\ peer_closed' = TRUE
    /\ UNCHANGED <<session, caller, pc, sock_closed, result, error, stream, owed,
                   ncalls, nsent, failed_once>>
    /\ UNCHANGED <<locals, checkpoints>>

\* End of file: the peer closed and everything it sent has been read.
AtEOF == peer_closed /\ stream = <<>>

\* select.select([sock], [], [], 5) can report the socket: some of the unread
\* bytes may have arrived, or the socket is at end of file.
Readable == stream # <<>> \/ AtEOF

\* select.select([sock], [], [], 5) can expire: nothing the server sent has
\* arrived yet (at end of file the socket is always reported).
CanExpire == ~AtEOF

\* What sock.recv(BUF_SIZE) can return on a socket select reported: the bytes
\* that have arrived, at least one and at most BUF_SIZE, or b"" at end of file.
Chunks ==
    IF stream = <<>> THEN {<<>>}
    ELSE {Take(stream, n) : n \in 1..Min(BUF_SIZE, Len(stream))}

\* ------------------------------------------------------------- _recv_all

\* _recv_all raises: the accumulator is dropped with the frame.
Raise(kind, code) ==
    /\ pc' = "raise"
    /\ error' = [kind |-> kind, code |-> code]
    /\ result' = <<>>
    /\ failed_once' = TRUE

\* _recv_all returns its accumulator.
Return(reply) ==
    /\ pc' = "return"
    /\ result' = reply
    /\ error' = NoError
    /\ UNCHANGED failed_once

\* line 84-85, the socket is in rlist
select_first_ready ==
    /\ pc = "select1"
    /\ Readable
    /\ pc' = "recv1"
    /\ nselect' = nselect + 1
    /\ UNCHANGED <<session, caller, sock_closed, result, error, ncalls, nsent,
                   failed_once, bytes_received, status_code, nrecv, read_log,
                   first_prefix, stream, peer_closed, owed>>
    /\ UNCHANGED checkpoints

\* select_first_timeout with the rlist test moved behind the read of line 87.
select_first_timeout_after_recv ==
    /\ pc = "select1"
    /\ CanExpire
    /\ nselect' = nselect + 1
    /\ nrecv' = nrecv + 1
    /\ Raise("TimeoutError", <<>>)
    /\ UNCHANGED <<session, caller, sock_closed, ncalls, nsent, bytes_received,
                   status_code, read_log, first_prefix, stream, peer_closed, owed>>
    /\ UNCHANGED checkpoints

\* line 84-86, the wait expires
select_first_timeout ==
    /\ pc = "select1"
    /\ CanExpire
    /\ nselect' = nselect + 1
    /\ Raise("TimeoutError", <<>>)
    /\ UNCHANGED <<session, caller, sock_closed, ncalls, nsent, bytes_received,
                   status_code, nrecv, read_log, first_prefix, stream, peer_closed,
                   owed>>
    /\ UNCHANGED checkpoints

\* recv_first without the test of line 89-90: every reply goes to the loop.
recv_first_without_terminal_test ==
    /\ pc = "recv1"
    /\ \E chunk \in Chunks :
         LET st == _get_status(chunk)
         IN  /\ stream' = Drop(stream, Len(chunk))
             /\ bytes_received' = chunk
             /\ nrecv' = nrecv + 1
             /\ read_log' = read_log \o chunk
             /\ first_prefix' = Take(chunk, 3)
             /\ IF ~st.ok
                THEN /\ Raise("ValueError", <<>>)
                     /\ UNCHANGED status_code
                ELSE /\ status_code' = <<st.val>>
                     /\ IF _response_complete(chunk)
                        THEN Return(chunk)
                        ELSE /\ pc' = "select2"
                             /\ UNCHANGED <<result, error, failed_once>>
    /\ UNCHANGED <<session, caller, sock_closed, ncalls, nsent, nselect,
                   peer_closed, owed>>
    /\ UNCHANGED checkpoints

\* line 87-91: the first recv, the status code, and the two completeness tests
recv_first ==
    /\ pc = "recv1"
    /\ \E chunk \in Chunks :
         LET st == _get_status(chunk)
         IN  /\ stream' = Drop(stream, Len(chunk))
             /\ bytes_received' = chunk
             /\ nrecv' = nrecv + 1
             /\ read_log' = read_log \o chunk
             /\ first_prefix' = Take(chunk, 3)
             /\ IF ~st.ok
                THEN /\ Raise("ValueError", <<>>)
                     /\ UNCHANGED status_code
                ELSE /\ status_code' = <<st.val>>
                     /\ IF response_complete(st.val)
                        THEN Return(chunk)
                        ELSE IF _response_complete(chunk)
                             THEN Return(chunk)
                             ELSE /\ pc' = "select2"
                                  /\ UNCHANGED <<result, error, failed_once>>
    /\ UNCHANGED <<session, caller, sock_closed, ncalls, nsent, nselect,
                   peer_closed, owed>>
    /\ UNCHANGED checkpoints

\* line 92-93, the socket is in rlist
select_loop_ready ==
    /\ pc = "select2"
    /\ Readable
    /\ nselect < MaxWaits
    /\ pc' = "recv2"
    /\ nselect' = nselect + 1
    /\ UNCHANGED <<session, caller, sock_closed, result, error, ncalls, nsent,
                   failed_once, bytes_received, status_code, nrecv, read_log,
                   first_prefix, stream, peer_closed, owed>>
    /\ UNCHANGED checkpoints

\* select_loop_timeout reporting the status of the accumulator as it stands,
\* not the status_code of line 88.
select_loop_timeout_reparsed ==
    /\ pc = "select2"
    /\ CanExpire
    /\ nselect' = nselect + 1
    /\ Raise("TimeoutError", <<_get_status(bytes_received).val>>)
    /\ UNCHANGED <<session, caller, sock_closed, ncalls, nsent, bytes_received,
                   status_code, nrecv, read_log, first_prefix, stream, peer_closed,
                   owed>>
    /\ UNCHANGED checkpoints

\* line 92-97, the wait expires
select_loop_timeout ==
    /\ pc = "select2"
    /\ CanExpire
    /\ nselect' = nselect + 1
    /\ Raise("TimeoutError", status_code)
    /\ UNCHANGED <<session, caller, sock_closed, ncalls, nsent, bytes_received,
                   status_code, nrecv, read_log, first_prefix, stream, peer_closed,
                   owed>>
    /\ UNCHANGED checkpoints

\* recv_loop with = for += in line 98: the accumulator keeps the last chunk only.
recv_loop_overwriting ==
    /\ pc = "recv2"
    /\ \E chunk \in Chunks :
         LET acc == chunk
         IN  /\ stream' = Drop(stream, Len(chunk))
             /\ bytes_received' = acc
             /\ nrecv' = nrecv + 1
             /\ read_log' = read_log \o chunk
             /\ IF _response_complete(acc)
                THEN Return(acc)
                ELSE /\ pc' = "select2"
                     /\ UNCHANGED <<result, error, failed_once>>
    /\ UNCHANGED <<session, caller, sock_closed, ncalls, nsent, nselect,
                   status_code, first_prefix, peer_closed, owed>>
    /\ UNCHANGED checkpoints

\* line 98, then the loop test of line 91
recv_loop ==
    /\ pc = "recv2"
    /\ \E chunk \in Chunks :
         LET acc == bytes_received \o chunk
         IN  /\ stream' = Drop(stream, Len(chunk))
             /\ bytes_received' = acc
             /\ nrecv' = nrecv + 1
             /\ read_log' = read_log \o chunk
             /\ IF _response_complete(acc)
                THEN Return(acc)
                ELSE /\ pc' = "select2"
                     /\ UNCHANGED <<result, error, failed_once>>
    /\ UNCHANGED <<session, caller, sock_closed, ncalls, nsent, nselect,
                   status_code, first_prefix, peer_closed, owed>>
    /\ UNCHANGED checkpoints

\* ------------------------------------------------------------ the callers

\* A fresh _recv_all frame.
EnterRecvAll ==
    /\ pc' = "select1"
    /\ bytes_received' = <<>>
    /\ status_code' = <<>>
    /\ nselect' = 0
    /\ nrecv' = 0
    /\ read_log' = <<>>
    /\ first_prefix' = <<>>
    /\ result' = <<>>
    /\ error' = NoError

\* The _recv_all frame is gone.
LeaveRecvAll ==
    /\ bytes_received' = <<>>
    /\ status_code' = <<>>
    /\ nselect' = 0
    /\ nrecv' = 0
    /\ read_log' = <<>>
    /\ first_prefix' = <<>>

\* sock.sendall(command): the server owes one more reply.
sendall ==
    /\ nsent' = nsent + 1
    /\ owed' = owed + 1

\* The status_code attribute of a response object built from a reply.
ResponseStatus(reply) == _get_status(reply).val

\* _connect without the test of line 104-105.
_connect_without_test ==
    /\ caller = "_connect"
    /\ pc = "return"
    /\ greet_code' = <<ResponseStatus(result)>>
    /\ sendall
    /\ caller' = "_send_client_ident"
    /\ EnterRecvAll
    /\ UNCHANGED <<session, failed_once>>
    /\ UNCHANGED <<sock_closed, stream, peer_closed, ncalls, ident_code>>

\* _connect, line 103-106: the greeting is judged, then _send_client_ident
\* sends the identification (line 110) and waits for its reply.
_connect ==
    /\ caller = "_connect"
    /\ pc = "return"
    /\ greet_code' = <<ResponseStatus(result)>>
    /\ IF ResponseStatus(result) # CONNECTION_ACCEPTED
       THEN /\ error' = [kind |-> "Exception", code |-> <<ResponseStatus(result)>>]
            /\ failed_once' = TRUE
            /\ session' = "Failed"
            /\ pc' = "done"
            /\ LeaveRecvAll
            /\ UNCHANGED <<caller, result, nsent, owed>>
       ELSE /\ sendall
            /\ caller' = "_send_client_ident"
            /\ EnterRecvAll
            /\ UNCHANGED <<session, failed_once>>
    /\ UNCHANGED <<sock_closed, stream, peer_closed, ncalls, ident_code>>

\* _send_client_ident without the test of line 112-113.
_send_client_ident_without_test ==
    /\ caller = "_send_client_ident"
    /\ pc = "return"
    /\ ident_code' = <<ResponseStatus(result)>>
    /\ session' = "Ready"
    /\ UNCHANGED <<error, failed_once>>
    /\ pc' = "done"
    /\ LeaveRecvAll
    /\ UNCHANGED <<caller, result, sock_closed, ncalls, nsent, greet_code, stream,
                   peer_closed, owed>>

\* _send_client_ident, line 111-113, then _connect line 107 and __init__ line 81
_send_client_ident ==
    /\ caller = "_send_client_ident"
    /\ pc = "return"
    /\ ident_code' = <<ResponseStatus(result)>>
    /\ IF ResponseStatus(result) # OK
       THEN /\ error' = [kind |-> "Exception", code |-> <<ResponseStatus(result)>>]
            /\ failed_once' = TRUE
            /\ session' = "Failed"
       ELSE /\ session' = "Ready"
            /\ UNCHANGED <<error, failed_once>>
    /\ pc' = "done"
    /\ LeaveRecvAll
    /\ UNCHANGED <<caller, result, sock_closed, ncalls, nsent, greet_code, stream,
                   peer_closed, owed>>

\* An exception of _recv_all leaves the method that called it: out of
\* __init__ no session is produced, out of a public method the session stays.
propagate ==
    /\ pc = "raise"
    /\ pc' = "done"
    /\ session' = IF session = "Constructing" THEN "Failed" ELSE session
    /\ LeaveRecvAll
    /\ UNCHANGED <<caller, sock_closed, result, error, ncalls, nsent, failed_once,
                   stream, peer_closed, owed>>
    /\ UNCHANGED checkpoints

CanCall == session = "Ready" /\ pc = "done" /\ ncalls < MaxCalls

\* A public method writes its command: sendall on a closed socket raises
\* OSError and writes nothing.
Call(method) ==
    /\ CanCall
    /\ ncalls' = ncalls + 1
    /\ caller' = method
    /\ IF sock_closed
       THEN /\ error' = [kind |-> "OSError", code |-> <<>>]
            /\ failed_once' = TRUE
            /\ result' = <<>>
            /\ UNCHANGED <<pc, nsent, owed, locals>>
       ELSE /\ sendall
            /\ EnterRecvAll
            /\ UNCHANGED failed_once
    /\ UNCHANGED <<session, sock_closed, stream, peer_closed>>
    /\ UNCHANGED checkpoints

\* _get_response, line 122: get_server_status, get_server_information and
\* get_help_text send their command and enter _recv_all.
_get_response == Call("_get_response")

\* _get_response, line 123: the reply is handed to the response class.
_get_response_return ==
    /\ caller = "_get_response"
    /\ pc = "return"
    /\ pc' = "done"
    /\ LeaveRecvAll
    /\ UNCHANGED <<session, caller, sock_closed, result, error, ncalls, nsent,
                   failed_once, stream, peer_closed, owed>>
    /\ UNCHANGED checkpoints

\* disconnect, line 156
disconnect == Call("disconnect")

\* disconnect, line 157-163
disconnect_return ==
    /\ caller = "disconnect"
    /\ pc = "return"
    /\ IF _get_status(result).val # CLOSING_CONNECTION
       THEN /\ error' = [kind |-> "ConnectionError", code |-> <<>>]
            /\ failed_once' = TRUE
            /\ UNCHANGED sock_closed
       ELSE /\ sock_closed' = TRUE
            /\ UNCHANGED <<error, failed_once>>
    /\ pc' = "done"
    /\ LeaveRecvAll
    /\ UNCHANGED <<session, caller, result, ncalls, nsent, stream, peer_closed, owed>>
    /\ UNCHANGED checkpoints

Next ==
    \/ ServerReply /\ UNCHANGED ext
    \/ ServerClose /\ UNCHANGED ext
    \/ select_first_ready /\ UNCHANGED ext
    \/ select_first_timeout /\ UNCHANGED ext
    \/ recv_first /\ UNCHANGED ext
    \/ select_loop_ready /\ UNCHANGED ext
    \/ select_loop_timeout /\ UNCHANGED ext
    \/ recv_loop /\ UNCHANGED ext
    \/ _connect /\ UNCHANGED ext
    \/ _send_client_ident /\ UNCHANGED ext
    \/ propagate /\ UNCHANGED ext
    \/ _get_response /\ UNCHANGED ext
    \/ _get_response_return /\ UNCHANGED ext
    \/ disconnect /\ UNCHANGED ext
    \/ disconnect_return /\ UNCHANGED ext

Spec == Init /\ [][Next]_vars

\* ----------------------------------------------------------------- claims

\* b ends with a line that starts with the digits 250: the terminator line
\* is the final line of b.
EndsWithTerminatorLine(b) ==
    /\ EndsWith(b, CRLF)
    /\ \E k \in 1..Len(b) :
         /\ k = 1 \/ (k >= 3 /\ SubSeq(b, k - 2, k - 1) = CRLF)
         /\ StartsWith(SubSeq(b, k, Len(b)), <<"2", "5", "0">>)
         /\ ~Contains(SubSeq(b, k, Len(b) - 2), CRLF)

Returned == pc = "return"

Raised == pc = "raise"

StatusIs(codes) == status_code # <<>> /\ status_code[1] \in codes

\* C1: a reply that starts with a Preliminary status code is returned only
\* when a terminator line (250 ...) followed by CRLF is its final line; a
\* body line with the digits 250 earlier in the accumulator does not end
\* assembly, even when the bytes read so far end in CRLF.
C1_TerminatorAnchoredAtTail ==
    (Returned /\ StatusIs(PreliminaryCodes)) => EndsWithTerminatorLine(result)

\* C2: a reply with a Terminal status code is returned after the first read:
\* one wait, one recv, and the reply is exactly what that recv read.
C2_TerminalReturnsAfterFirstRead ==
    StatusIs(TerminalCodes) =>
        /\ Returned
        /\ nselect = 1
        /\ nrecv = 1
        /\ result = read_log
        /\ error = NoError

\* C2 witness: a whole single-line Terminal reply has been returned.
C2_Witness ==
    /\ Returned
    /\ StatusIs(TerminalCodes)
    /\ result \in {R220, R221, R250, R420}

\* C3: every byte sequence _recv_all returns ends with CRLF, however the
\* reply is cut into chunks.
C3_ReturnEndsWithCRLF == Returned => EndsWith(result, CRLF)

FirstWaitTimeout == [kind |-> "TimeoutError", code |-> <<>>]

\* C4: when the first wait expires the call raises TimeoutError, no recv has
\* been performed and no reply, partial or empty, is returned.
C4_FirstWaitExpiry ==
    (error = FirstWaitTimeout) =>
        /\ pc \in {"raise", "done"}
        /\ nrecv = 0
        /\ read_log = <<>>
        /\ bytes_received = <<>>
        /\ result = <<>>
        /\ failed_once

\* C4 witness: the first wait has just expired.
C4_Witness == Raised /\ error = FirstWaitTimeout /\ nselect = 1

\* C5: when a wait expires after the first chunk, the call raises a
\* TimeoutError carrying the status code parsed from the first chunk, the
\* expired wait is the last thing the call did (one wait after the last
\* recv, no retry) and the accumulator is not returned.
C5_LoopWaitExpiry ==
    /\ (error.kind = "TimeoutError") => (pc \in {"raise", "done"} /\ result = <<>>)
    /\ (Raised /\ error.kind = "TimeoutError" /\ nrecv > 0) =>
          /\ error.code = <<_get_status(first_prefix).val>>
          /\ nselect = nrecv + 1
          /\ bytes_received = read_log

\* C5 witness: a wait expired after a chunk of a preliminary reply was read.
C5_Witness ==
    /\ Raised
    /\ error = [kind |-> "TimeoutError", code |-> <<150>>]
    /\ nrecv > 0
    /\ bytes_received # <<>>

\* C6: construction reaches Ready exactly when the greeting _connect read
\* carries 220 and the identification reply carries 250; a greeting with any
\* other code fails construction with an error carrying that code, and the
\* session is Failed from then on.
C6_Handshake ==
    /\ (session = "Ready") <=>
          (greet_code = <<CONNECTION_ACCEPTED>> /\ ident_code = <<OK>>)
    /\ (greet_code # <<>> /\ greet_code # <<CONNECTION_ACCEPTED>>) =>
          /\ session = "Failed"
          /\ error = [kind |-> "Exception", code |-> greet_code]
          /\ ident_code = <<>>
          /\ nsent = 0

\* C6 witness: the handshake has gone through.
C6_Witness ==
    /\ session = "Ready"
    /\ greet_code = <<220>>
    /\ ident_code = <<250>>
    /\ nsent = 1

\* C7: after an accepted greeting, an identification reply with any code
\* other than ok fails construction: the session is Failed, not Ready.
C7_IdentRejected ==
    (greet_code = <<CONNECTION_ACCEPTED>> /\ ident_code # <<>> /\ ident_code # <<OK>>) =>
        /\ session = "Failed"
        /\ error = [kind |-> "Exception", code |-> ident_code]
        /\ pc = "done"

\* C7 witness: the greeting was accepted and the identification was not.
C7_Witness ==
    /\ greet_code = <<220>>
    /\ ident_code = <<420>>
    /\ session = "Failed"

QuitAnswered == pc = "done" /\ caller = "disconnect" /\ result # <<>>

\* C8: after disconnect has read the reply to QUIT the socket is closed: with
\* status 221 without error, with any other status after a ConnectionError.
C8_DisconnectClosesSocket ==
    QuitAnswered =>
        /\ sock_closed
        /\ IF _get_status(result).val = CLOSING_CONNECTION
           THEN error = NoError
           ELSE error.kind = "ConnectionError"

\* C9: what _recv_all returns is the concatenation, in arrival order, of the
\* chunks it read in that call, nothing dropped, repeated or reordered.
C9_ReturnIsConcatenation ==
    Returned => (result = read_log /\ Len(result) = Len(read_log))

\* C9 witness: a multi-line reply read in more than one chunk is returned.
C9_Witness == Returned /\ nrecv >= 2 /\ result = R150

\* C10: once a call of the session has raised, no later step of the session
\* writes a command to the socket or reads from it.
C10_FailedIsAbsorbing ==
    [][failed_once => (nsent' = nsent /\ Len(stream') >= Len(stream))]_vars

ThreeDigits(b) == Len(b) = 3 /\ \A i \in 1..3 : b[i] \in Digits

\* C11: a status code is parsed only from three leading bytes that are three
\* digits: a first chunk shorter than 3 bytes is neither parsed nor failed
\* (the call reads on), and a prefix that is not three digits is an error,
\* never a status code.
C11_StatusFromThreeDigitsOnly ==
    /\ status_code # <<>> => ThreeDigits(first_prefix)
    /\ (Raised /\ error.kind = "ValueError") => Len(first_prefix) = 3

\* C16: the identification is written only after _connect has received a
\* whole greeting line with code 220, and after a rejected or timed-out
\* greeting nothing is ever written to the socket.
C16_IdentAfterWholeGreeting ==
    /\ [][(caller = "_connect" /\ nsent' > nsent) =>
            (ResponseStatus(result) = CONNECTION_ACCEPTED /\ EndsWith(result, CRLF))]_vars
    /\ []((session = "Failed" /\ ident_code = <<>> /\ caller = "_connect") => nsent = 0)

RECURSIVE IsReplySeq(_)
\* b is a run of whole server replies.
IsReplySeq(b) ==
    \/ b = <<>>
    \/ \E r \in Replies : StartsWith(b, r) /\ IsReplySeq(Drop(b, Len(r)))

\* C17: what _recv_all returns is one whole reply of the server, and it
\* returns only when no byte of that reply is left unread, so the unread
\* bytes are whole later replies.
C17_ReturnsWholeReply ==
    Returned => (result \in Replies /\ IsReplySeq(stream))

\* --------------------------------------------------- the loop past MaxWaits

\* line 92-93 at end of file, for the waits past MaxWaits (nselect and nrecv
\* stop counting there): the socket is reported at once.
select_loop_ready_at_eof ==
    /\ pc = "select2"
    /\ AtEOF
    /\ nselect = MaxWaits
    /\ pc' = "recv2_eof"
    /\ UNCHANGED <<session, caller, sock_closed, result, error, ncalls, nsent,
                   failed_once, stream, peer_closed, owed>>
    /\ UNCHANGED <<locals, checkpoints>>

\* line 98 at end of file, then the loop test of line 91: recv returns b"",
\* the accumulator stays as it is.
recv_loop_at_eof ==
    /\ pc = "recv2_eof"
    /\ LET acc == bytes_received \o <<>>
       IN  /\ bytes_received' = acc
           /\ IF _response_complete(acc)
              THEN Return(acc)
              ELSE /\ pc' = "select2"
                   /\ UNCHANGED <<result, error, failed_once>>
    /\ UNCHANGED <<session, caller, sock_closed, ncalls, nsent, nselect, nrecv,
                   status_code, read_log, first_prefix, stream, peer_closed, owed>>
    /\ UNCHANGED checkpoints

\* The steps of the client's own thread inside _recv_all.
RecvAllStep ==
    /\ \/ select_first_ready
       \/ select_first_timeout
       \/ recv_first
       \/ select_loop_ready
       \/ select_loop_timeout
       \/ recv_loop
       \/ select_loop_ready_at_eof
       \/ recv_loop_at_eof
    /\ UNCHANGED ext

\* The constructor against a server that may fall silent or close.
NextLive ==
    \/ ServerReply /\ UNCHANGED ext
    \/ ServerClose /\ UNCHANGED ext
    \/ select_first_ready /\ UNCHANGED ext
    \/ select_first_timeout /\ UNCHANGED ext
    \/ recv_first /\ UNCHANGED ext
    \/ select_loop_ready /\ UNCHANGED ext
    \/ select_loop_timeout /\ UNCHANGED ext
    \/ recv_loop /\ UNCHANGED ext
    \/ select_loop_ready_at_eof /\ UNCHANGED ext
    \/ recv_loop_at_eof /\ UNCHANGED ext
    \/ _connect /\ UNCHANGED ext
    \/ _send_client_ident /\ UNCHANGED ext
    \/ propagate /\ UNCHANGED ext

\* The client's thread keeps running: a select returns within its 5 units,
\* a recv on a reported socket returns. Nothing is assumed of the server.
SpecLive == Init /\ [][NextLive]_vars /\ WF_vars(RecvAllStep)

InRecvAll == pc \in {"select1", "recv1", "select2", "recv2", "recv2_eof"}

\* C13: every call of _recv_all ends, by a return or by an exception, also
\* when the server falls silent or closes the connection in mid-reply.
C13_RecvAllEnds == [](InRecvAll => <>(~InRecvAll))


\* ---------------------------------------------------------------------------
\* The wait bound of select.select, in time units
\* ---------------------------------------------------------------------------

\* The timeout argument of select.select, line 84 and line 92.
TIMEOUT == 5

\* One time unit passes while select.select waits and nothing has arrived.
Tick ==
    /\ pc \in {"select1", "select2"}
    /\ CanExpire
    /\ waited < TIMEOUT
    /\ waited' = waited + 1
    /\ UNCHANGED <<session, caller, pc, sock_closed, result, error, stream,
                   peer_closed, owed, ncalls, nsent, failed_once, elapsed>>
    /\ UNCHANGED <<locals, checkpoints>>

\* select.select of line 84 reports the socket within its own time.
select_first_ready_timed ==
    /\ select_first_ready
    /\ elapsed' = elapsed + waited
    /\ waited' = 0

\* select.select of line 84 returns empty: its whole time has passed.
select_first_timeout_timed ==
    /\ select_first_timeout
    /\ waited = TIMEOUT
    /\ UNCHANGED clock

\* select.select of line 92 reports the socket within its own time; the call
\* of the next iteration starts a wait of its own.
select_loop_ready_timed ==
    /\ select_loop_ready
    /\ elapsed' = elapsed + waited
    /\ waited' = 0

\* A select.select that is given what is left of one deadline for the call.
select_loop_timeout_deadline ==
    /\ select_loop_timeout
    /\ elapsed + waited >= TIMEOUT
    /\ UNCHANGED clock

\* select.select of line 92 returns empty: its whole time has passed.
select_loop_timeout_timed ==
    /\ select_loop_timeout
    /\ waited = TIMEOUT
    /\ UNCHANGED clock

\* The constructor with the time of its waits.
NextTimed ==
    \/ ServerReply /\ UNCHANGED clock /\ UNCHANGED <<props, other>>
    \/ ServerClose /\ UNCHANGED clock /\ UNCHANGED <<props, other>>
    \/ Tick /\ UNCHANGED <<props, other>>
    \/ select_first_ready_timed /\ UNCHANGED <<props, other>>
    \/ select_first_timeout_timed /\ UNCHANGED <<props, other>>
    \/ recv_first /\ UNCHANGED clock /\ UNCHANGED <<props, other>>
    \/ select_loop_ready_timed /\ UNCHANGED <<props, other>>
    \/ select_loop_timeout_timed /\ UNCHANGED <<props, other>>
    \/ recv_loop /\ UNCHANGED clock /\ UNCHANGED <<props, other>>
    \/ _connect /\ waited' = 0 /\ elapsed' = 0 /\ UNCHANGED <<props, other>>
    \/ _send_client_ident /\ UNCHANGED clock /\ UNCHANGED <<props, other>>
    \/ propagate /\ UNCHANGED clock /\ UNCHANGED <<props, other>>

SpecTimed == Init /\ [][NextTimed]_vars

\* C14: the wait bound is per wait and re-armed after every partial read:
\* _recv_all raises TimeoutError only when one wait lasted the whole bound,
\* however long the earlier waits of the call took together, and a return
\* hands back a reply the completeness test of the code accepted.
C14_WaitBoundPerWait ==
    /\ (Raised /\ error.kind = "TimeoutError") => waited = TIMEOUT
    /\ (Returned /\ nrecv >= 2) => _response_complete(result)

\* Three chunks, each within its own wait, the waits together longer than
\* the bound: the reply is returned.
C14_Witness ==
    /\ Returned
    /\ nrecv = 3
    /\ elapsed > TIMEOUT
    /\ waited < TIMEOUT
    /\ result = R150

\* ---------------------------------------------------------------------------
\* The cached listings and the operations that validate against them
\* ---------------------------------------------------------------------------

\* A listing with the one name d, and the reply of a server that has nothing
\* to list.
Listing == <<"1", "1", "0", "\r", "\n",
             "d", "\r", "\n",
             ".", "\r", "\n",
             "2", "5", "0", "\r", "\n">>
R554 == <<"5", "5", "4", "\r", "\n">>

PropReplies == {Listing, R554}

\* The arguments the operations are called with.
DbArgs == {"*", "d", "x"}
StrategyArgs == {".", "d", "x"}

\* bytes.splitlines on CRLF: the lines of a reply, a trailing CRLF ends the
\* last line.
RECURSIVE SplitLines(_)
SplitLines(b) ==
    IF b = <<>> THEN <<>>
    ELSE IF \E i \in 1..(Len(b) - 1) : b[i] = "\r" /\ b[i + 1] = "\n"
         THEN LET i == CHOOSE k \in 1..(Len(b) - 1) :
                         /\ b[k] = "\r" /\ b[k + 1] = "\n"
                         /\ \A j \in 1..(k - 1) : ~(b[j] = "\r" /\ b[j + 1] = "\n")
              IN <<Take(b, i - 1)>> \o SplitLines(Drop(b, i + 1))
         ELSE <<b>>

\* ServerPropertiesResponse.content: the names on the lines that follow the
\* status line, up to the line that holds the single dot.
content(reply) ==
    LET lines == SplitLines(reply)
        dots == {i \in 2..Len(lines) : lines[i] = <<".">>}
        last == IF dots = {} THEN Len(lines)
                ELSE (CHOOSE i \in dots : \A j \in dots : i <= j) - 1
    IN {lines[i][1] : i \in {k \in 2..last : lines[k] # <<>>}}

\* bool(getattr(obj, self.private_name, None)), line 53 and line 62: None and
\* an empty listing are both false.
truth(attr) == attr # <<>> /\ attr[1] # {}

\* The command a public operation writes through _get_response.
Command(method) ==
    CASE method = "define" -> "DEFINE"
      [] method = "match" -> "MATCH"
      [] method = "get_db_info" -> "SHOW INFO"

\* raise ValueError, line 133, 141, 147 and 149: the operation ends.
Invalid(o, c) ==
    /\ caller' = o.method
    /\ pc' = "done"
    /\ error' = [kind |-> "ValueError", code |-> <<>>]
    /\ result' = <<>>
    /\ failed_once' = TRUE
    /\ LeaveRecvAll
    /\ cmds' = c
    /\ UNCHANGED <<nsent, owed>>

\* Line 54-55 and line 63-64: the descriptor writes its command and waits
\* for the reply.
Fetch(descriptor, c) ==
    /\ sendall
    /\ EnterRecvAll
    /\ caller' = descriptor
    /\ cmds' = Append(c, IF descriptor = "Databases.__get__"
                         THEN "SHOW DB" ELSE "SHOW STRAT")
    /\ UNCHANGED failed_once

\* Line 134, 143 and 151: the operation's own command goes through
\* _get_response.
SendOwn(o, c) ==
    /\ sendall
    /\ EnterRecvAll
    /\ caller' = "_get_response"
    /\ cmds' = Append(c, Command(o.method))
    /\ UNCHANGED failed_once

\* match, line 148-153, with the value self.strategies gave.
strategy_tested(o, c, strategies) ==
    IF o.strategy \notin strategies THEN Invalid(o, c) ELSE SendOwn(o, c)

\* Line 148: `strategy != "." and strategy not in self.strategies`; define
\* and get_db_info have no strategy.
check_strategy(o, c) ==
    IF o.method # "match" \/ o.strategy = "."
    THEN SendOwn(o, c)
    ELSE IF truth(_strategies)
         THEN strategy_tested(o, c, _strategies[1])
         ELSE Fetch("Strategies.__get__", c)

\* Line 132, 140 and 146, with the value self.databases gave.
database_tested(o, c, databases) ==
    IF o.db \notin databases THEN Invalid(o, c) ELSE check_strategy(o, c)

\* Line 132 (`db not in self.databases`), line 140 and line 146
\* (`db != "*" and db not in self.databases`).
check_database(o, c) ==
    IF o.method # "get_db_info" /\ o.db = "*"
    THEN check_strategy(o, c)
    ELSE IF truth(_databases)
         THEN database_tested(o, c, _databases[1])
         ELSE Fetch("Databases.__get__", c)

\* A public operation runs up to its first wait for the server.
PublicCall(o) ==
    /\ CanCall
    /\ ~sock_closed
    /\ ncalls' = ncalls + 1
    /\ op' = o
    /\ check_database(o, <<>>)
    /\ UNCHANGED <<session, sock_closed, stream, peer_closed, _databases,
                   _strategies, nstored_db, nstored_strat>>
    /\ UNCHANGED checkpoints

\* get_db_info, line 131-134
get_db_info ==
    \E db \in DbArgs :
        PublicCall([method |-> "get_db_info", db |-> db, strategy |-> ""])

\* define, line 139-143
define ==
    \E db \in DbArgs :
        PublicCall([method |-> "define", db |-> db, strategy |-> ""])

\* match, line 145-153
match ==
    \E db \in DbArgs, strategy \in StrategyArgs :
        PublicCall([method |-> "match", db |-> db, strategy |-> strategy])

\* Databases.__get__, line 64-66: the listing is stored and given to the
\* test that asked for it.
Databases__get__ ==
    /\ caller = "Databases.__get__"
    /\ pc = "return"
    /\ _databases' = <<content(result)>>
    /\ nstored_db' = nstored_db + 1
    /\ database_tested(op, cmds, content(result))
    /\ UNCHANGED <<session, sock_closed, stream, peer_closed, ncalls, op,
                   _strategies, nstored_strat>>
    /\ UNCHANGED checkpoints

\* Strategies.__get__, line 55-57
Strategies__get__ ==
    /\ caller = "Strategies.__get__"
    /\ pc = "return"
    /\ _strategies' = <<content(result)>>
    /\ nstored_strat' = nstored_strat + 1
    /\ strategy_tested(op, cmds, content(result))
    /\ UNCHANGED <<session, sock_closed, stream, peer_closed, ncalls, op,
                   _databases, nstored_db>>
    /\ UNCHANGED checkpoints

\* The server answers a command of a Ready session.
ServerAnswer ==
    /\ owed > 0
    /\ ~peer_closed
    /\ \E r \in PropReplies : stream' = stream \o r
    /\ owed' = owed - 1
    /\ UNCHANGED <<session, caller, pc, sock_closed, result, error, peer_closed,
                   ncalls, nsent, failed_once>>
    /\ UNCHANGED <<locals, checkpoints>>

\* A session whose constructor has returned: the greeting and the reply to
\* the identification were read whole.
InitReady ==
    /\ session = "Ready"
    /\ caller = "_send_client_ident"
    /\ pc = "done"
    /\ sock_closed = FALSE
    /\ bytes_received = <<>>
    /\ status_code = <<>>
    /\ result = R250
    /\ error = NoError
    /\ stream = <<>>
    /\ peer_closed = FALSE
    /\ owed = 0
    /\ ncalls = 0
    /\ nselect = 0
    /\ nrecv = 0
    /\ read_log = <<>>
    /\ first_prefix = <<>>
    /\ nsent = 1
    /\ failed_once = FALSE
    /\ greet_code = <<CONNECTION_ACCEPTED>>
    /\ ident_code = <<OK>>
    /\ waited = 0
    /\ elapsed = 0
    /\ op = NoOp
    /\ _databases = <<>>
    /\ _strategies = <<>>
    /\ cmds = <<>>
    /\ nstored_db = 0
    /\ nstored_strat = 0
    /\ other = IdleFrame

\* The operations that validate their arguments, on a Ready session.
NextProps ==
    \/ ServerAnswer /\ UNCHANGED ext
    \/ ServerClose /\ UNCHANGED ext
    \/ select_first_ready /\ UNCHANGED ext
    \/ select_first_timeout /\ UNCHANGED ext
    \/ recv_first /\ UNCHANGED ext
    \/ select_loop_ready /\ UNCHANGED ext
    \/ select_loop_timeout /\ UNCHANGED ext
    \/ recv_loop /\ UNCHANGED ext
    \/ get_db_info /\ UNCHANGED <<clock, other>>
    \/ define /\ UNCHANGED <<clock, other>>
    \/ match /\ UNCHANGED <<clock, other>>
    \/ Databases__get__ /\ UNCHANGED <<clock, other>>
    \/ Strategies__get__ /\ UNCHANGED <<clock, other>>
    \/ _get_response_return /\ UNCHANGED ext
    \/ propagate /\ UNCHANGED ext

SpecProps == InitReady /\ [][NextProps]_vars

\* The operations that test their arguments against the listings.
Validating == {"define", "match", "get_db_info"}

\* The database argument passes the test of line 132, 140 or 146.
DbOk(o) ==
    \/ o.method # "get_db_info" /\ o.db = "*"
    \/ _databases # <<>> /\ o.db \in _databases[1]

\* The strategy argument passes the test of line 148.
StrategyOk(o) ==
    \/ o.method # "match"
    \/ o.strategy = "."
    \/ _strategies # <<>> /\ o.strategy \in _strategies[1]

\* The running operation has written its DEFINE, MATCH or SHOW INFO.
OwnWritten == \E i \in 1..Len(cmds) : cmds[i] \in {"DEFINE", "MATCH", "SHOW INFO"}

\* The running operation ended in the ValueError of its own test, for a
\* database other than '*' that is not listed or a strategy other than '.'
\* that is not listed.
InvalidRaised ==
    /\ pc = "done"
    /\ caller \in Validating
    /\ error = [kind |-> "ValueError", code |-> <<>>]
    /\ ~(op.method = "get_db_info" /\ op.db = "*")

\* What an operation may write before its own command: each listing fetch
\* at most once, the databases before the strategies.
FetchesOnly == {<<>>, <<"SHOW DB">>, <<"SHOW STRAT">>, <<"SHOW DB", "SHOW STRAT">>}

\* C12: over the accesses of one session each listing is computed at most
\* once, whatever the server listed: Databases.__get__ and
\* Strategies.__get__ each fetch and store a listing at most one time.
C12_ListingsComputedOnce == nstored_db <= 1 /\ nstored_strat <= 1

\* The running operation has written the command.
Wrote(command) == \E i \in 1..Len(cmds) : cmds[i] = command

\* C18: define, match and get_db_info write their own command only after
\* their arguments passed the tests; an operation that ended in the
\* ValueError of a test wrote nothing but listing fetches, and a listing it
\* fetched is the one fetch of the session; an operation that is over with
\* an argument that does not pass has raised.
C18_ValidatesBeforeSending ==
    /\ OwnWritten => (DbOk(op) /\ StrategyOk(op))
    /\ InvalidRaised => (cmds \in FetchesOnly /\ ~(DbOk(op) /\ StrategyOk(op)))
    /\ InvalidRaised => /\ Wrote("SHOW DB") => nstored_db = 1
                        /\ Wrote("SHOW STRAT") => nstored_strat = 1
    /\ (pc = "done" /\ op.method \in Validating /\ ~(DbOk(op) /\ StrategyOk(op)))
          => error.kind # "none"

\* ---------------------------------------------------------------------------
\* Two issuers on one session
\* ---------------------------------------------------------------------------

\* What belongs to the issuer that is running: its position, the frame of
\* its _recv_all, what its last call gave, and its operation.
Frame ==
    [caller |-> caller, pc |-> pc, bytes_received |-> bytes_received,
     status_code |-> status_code, nselect |-> nselect, nrecv |-> nrecv,
     read_log |-> read_log, first_prefix |-> first_prefix, result |-> result,
     error |-> error, op |-> op, cmds |-> cmds]

\* The interpreter lets the other issuer run while this one is outside a
\* method or blocked in select.select: the object, its socket and its cached
\* listings are shared, and nothing in DictionaryClient holds an issuer back
\* while another one is inside a method.
Switch ==
    /\ session = "Ready"
    /\ pc \in {"done", "select1", "select2"}
    /\ other' = Frame
    /\ caller' = other.caller
    /\ pc' = other.pc
    /\ bytes_received' = other.bytes_received
    /\ status_code' = other.status_code
    /\ nselect' = other.nselect
    /\ nrecv' = other.nrecv
    /\ read_log' = other.read_log
    /\ first_prefix' = other.first_prefix
    /\ result' = other.result
    /\ error' = other.error
    /\ op' = other.op
    /\ cmds' = other.cmds
    /\ UNCHANGED <<session, sock_closed, stream, peer_closed, owed, ncalls, nsent,
                   failed_once, _databases, _strategies, nstored_db, nstored_strat>>
    /\ UNCHANGED <<checkpoints, clock>>

\* The server answers a command with a status line.
ServerStatus ==
    /\ owed > 0
    /\ ~peer_closed
    /\ \E r \in {R250, R420} : stream' = stream \o r
    /\ owed' = owed - 1
    /\ UNCHANGED <<session, caller, pc, sock_closed, result, error, peer_closed,
                   ncalls, nsent, failed_once>>
    /\ UNCHANGED <<locals, checkpoints>>

\* Two issuers calling the operations that go through _get_response.
NextTwo ==
    \/ ServerStatus /\ UNCHANGED ext
    \/ ServerClose /\ UNCHANGED ext
    \/ select_first_ready /\ UNCHANGED ext
    \/ select_first_timeout /\ UNCHANGED ext
    \/ recv_first /\ UNCHANGED ext
    \/ select_loop_ready /\ UNCHANGED ext
    \/ select_loop_timeout /\ UNCHANGED ext
    \/ recv_loop /\ UNCHANGED ext
    \/ _get_response /\ UNCHANGED ext
    \/ _get_response_return /\ UNCHANGED ext
    \/ propagate /\ UNCHANGED ext
    \/ Switch

SpecTwo == InitReady /\ [][NextTwo]_vars

\* The issuer that is not running is inside _recv_all.
OtherInRecvAll == other.pc \in {"select1", "recv1", "select2", "recv2"}

\* C15: a Ready session has one send/receive in flight: no issuer writes a
\* command to the socket while the reply to the command another issuer wrote
\* is still being assembled.
C15_OneInFlight == [][nsent' > nsent => ~OtherInRecvAll]_vars

====
